---- MODULE Spec2Model ----
(***************************************************************************)
(* Shared-memory buffer pools of awrams.utils.messaging.buffers:           *)
(* BufferManager / BufferedDictManager over a multiprocessing.Queue free   *)
(* list, the factories that build them, and the ndarray views over the     *)
(* shared arrays.  Slot ids are the Python ids 0..N-1; the Python list     *)
(* element l[i] is the sequence element l[i+1].                            *)
(***************************************************************************)
EXTENDS Integers, Sequences, FiniteSets, TLC

\* ---------------------------------------------------------------- bounds
MaxCount == 3
NumConsumers == 2
MaxLen == 2
MaxWrites == 1
MaxQueue == 4

Consumers == 1..NumConsumers
Recordables == {"p", "q"}
Values == {7}

\* ------------------------------------------------------- python values
\* An optional argument: None, or a given value.
None == [given |-> FALSE, val |-> <<>>]
Some(v) == [given |-> TRUE, val |-> v]

RECURSIVE prod(_)
\* np.prod of a shape tuple
prod(shape) == IF shape = <<>> THEN 1 ELSE Head(shape) * prod(Tail(shape))

RECURSIVE Range0(_)
\* list(range(n)) as a sequence
Range0(n) == IF n <= 0 THEN <<>> ELSE Append(Range0(n - 1), n - 1)

Zeros(n) == [j \in 1..n |-> 0]

SeqToSet(s) == {s[j] : j \in 1..Len(s)}

\* --------------------------------------------------------- dtype table
_ctypes_to_numpy(t) ==
    CASE t = "c_float" -> "float32"
      [] t = "c_double" -> "float64"
      [] t = "d" -> "float64"

\* the numpy dtypes that are keys of _numpy_to_ctypes
Registered == {"float32", "float64"}

_numpy_to_ctypes_shifted(dt) ==
    CASE dt = "float32" -> "c_float"
      [] dt = "float64" -> "c_float"

\* dict(zip(values, keys)): the later key of an equal value wins
_numpy_to_ctypes(dt) ==
    CASE dt = "float32" -> "c_float"
      [] dt = "float64" -> "d"

\* the _type_ of an mp.Array made with the given typecode
ArrayType(tc) == IF tc = "d" THEN "c_double" ELSE tc

\* ------------------------------------------------ shared arrays, views
\* A shared array: its identity (slot, field), its element type, its data.
NoField == ""

\* slot and field name the new array; shape is a tuple (an integer n is <<n>>)
init_shm_ndarray(slot, field, shape, dtype) ==
    [slot |-> slot, field |-> field,
     _type_ |-> ArrayType(_numpy_to_ctypes(dtype)), data |-> Zeros(prod(shape))]

\* An ndarray over a shared array: it aliases the array (slot, field) from
\* element off on, with the given shape; it holds no data of its own.
View(slot, field, dtype, shape, off) ==
    [slot |-> slot, field |-> field, dtype |-> dtype, shape |-> shape,
     off |-> off, err |-> ""]

ErrView(e) ==
    [slot |-> 0 - 1, field |-> NoField, dtype |-> "", shape |-> <<>>,
     off |-> 0, err |-> e]

reshape_any(v, shape) == [v EXCEPT !.shape = shape]

\* ndarray.reshape(shape), shape a tuple of dimensions >= 0
reshape(v, shape) ==
    IF prod(shape) = prod(v.shape)
    THEN [v EXCEPT !.shape = shape]
    ELSE ErrView("ValueError")

shm_as_ndarray(mp_array, shape) ==
    LET dtype == _ctypes_to_numpy(mp_array._type_)
        result == View(mp_array.slot, mp_array.field, dtype,
                       <<Len(mp_array.data)>>, 0)
    IN IF shape.given THEN reshape(result, shape.val) ELSE result

shm_to_nd_dict(buffers) ==
    [k \in DOMAIN buffers |-> shm_as_ndarray(buffers[k], None)]

\* ndarray[k] for an integer k: the k-th sub-array along the leading axis
index_int(v, k) ==
    IF v.err # "" THEN v
    ELSE IF v.shape = <<>> \/ k >= Head(v.shape) \/ k < 0 - Head(v.shape)
    THEN ErrView("IndexError")
    ELSE LET kk == IF k < 0 THEN k + Head(v.shape) ELSE k
         IN [v EXCEPT !.shape = Tail(v.shape),
                      !.off = v.off + kk * prod(Tail(v.shape))]

RECURSIVE index_tuple(_, _)
\* ndarray[t] for a tuple t of integers; ndarray[()] is the array itself
index_tuple(v, t) ==
    IF t = <<>> THEN v ELSE index_tuple(index_int(v, Head(t)), Tail(t))

\* An indices argument: None, an integer or a tuple of integers.
IdxNone == [kind |-> "None", i |-> 0, t |-> <<>>]
IdxInt(k) == [kind |-> "int", i |-> k, t |-> <<>>]
IdxTuple(t) == [kind |-> "tuple", i |-> 0, t |-> t]

\* ndarray[indices]
getitem(v, indices) ==
    IF indices.kind = "int" THEN index_int(v, indices.i)
    ELSE index_tuple(v, indices.t)

\* Python truth value of an indices argument
truthy(indices) ==
    CASE indices.kind = "None" -> FALSE
      [] indices.kind = "int" -> indices.i # 0
      [] indices.kind = "tuple" -> indices.t # <<>>

\* ndarray[0:n] for 0 <= n: the first min(n, length) sub-arrays
slice0(v, n) ==
    IF v.shape = <<>> THEN ErrView("IndexError")
    ELSE LET m == IF n < Head(v.shape) THEN n ELSE Head(v.shape)
         IN [v EXCEPT !.shape = <<m>> \o Tail(v.shape)]

\* number of elements a view spans
size(v) == prod(v.shape)

\* ------------------------------------------------------ the free list
\* multiprocessing.Queue: put appends, get removes the oldest entry.
queue_put_twice(q, buffer_id) == Append(Append(q, buffer_id), buffer_id)

queue_put_front(q, buffer_id) == <<buffer_id>> \o q

queue_put_once(q, buffer_id) ==
    IF \E j \in 1..Len(q) : q[j] = buffer_id THEN q ELSE Append(q, buffer_id)

queue_put(q, buffer_id) == Append(q, buffer_id)

queue_get_peek(q) == [buffer_id |-> Head(q), q |-> q]

queue_get_rotate(q) == [buffer_id |-> Head(q), q |-> Append(Tail(q), Head(q))]

queue_get_newest(q) == [buffer_id |-> q[Len(q)], q |-> SubSeq(q, 1, Len(q) - 1)]

queue_get(q) == [buffer_id |-> Head(q), q |-> Tail(q)]

queue_timeout_drop(q) == IF q = <<>> THEN q ELSE Tail(q)

\* queue.get(timeout=t) raising queue.Empty: the queue afterwards
queue_timeout(q) == q

\* ----------------------------------------------------------- factories
RECURSIVE create_buffers_loop(_, _, _, _, _)
create_buffers_loop(i, buf_count, buf_shape, buffers, q) ==
    IF i >= buf_count THEN [buffers |-> buffers, q |-> q]
    ELSE create_buffers_loop(i + 1, buf_count, buf_shape,
             Append(buffers, init_shm_ndarray(i, NoField, buf_shape, "float64")),
             queue_put(q, i))

create_buffers_from1(buf_count, buf_shape) ==
    create_buffers_loop(1, buf_count, buf_shape, <<>>, <<>>)

create_buffers(buf_count, buf_shape) ==
    create_buffers_loop(0, buf_count, buf_shape, <<>>, <<>>)

RECURSIVE create_dict_buffers_loop(_, _, _, _, _, _)
create_dict_buffers_loop(i, recordables, buf_count, buf_len, buffers, q) ==
    IF i >= buf_count THEN [buffers |-> buffers, q |-> q]
    ELSE create_dict_buffers_loop(i + 1, recordables, buf_count, buf_len,
             Append(buffers,
                    [k \in recordables |-> init_shm_ndarray(i, k, <<buf_len>>, "float64")]),
             queue_put(q, i))

create_dict_buffers_reseed(recordables, buf_count, buf_len) ==
    [buffers |-> create_dict_buffers_loop(0, recordables, buf_count, buf_len,
                                          <<>>, <<>>).buffers,
     q |-> [j \in 1..buf_count |-> 0]]

create_dict_buffers(recordables, buf_count, buf_len) ==
    create_dict_buffers_loop(0, recordables, buf_count, buf_len, <<>>, <<>>)

\* ------------------------------------------------------------ managers
rebuild_buffers_np_last(shm, shape) ==
    [j \in 1..Len(shm) |-> shm_as_ndarray(shm[Len(shm)], shape)]

\* BufferManager.rebuild_buffers: the new buffers_np
rebuild_buffers_np(shm, shape) ==
    [j \in 1..Len(shm) |-> shm_as_ndarray(shm[j], shape)]

rebuild_buffers_nd_first(shm) ==
    [j \in 1..Len(shm) |-> shm_to_nd_dict(shm[1])]

\* BufferedDictManager.rebuild_buffers: the new buffers_nd
rebuild_buffers_nd(shm) ==
    [j \in 1..Len(shm) |-> shm_to_nd_dict(shm[j])]

\* l[i] of a Python list: a negative i counts from the end
in_list(l, i) == i < Len(l) /\ i >= 0 - Len(l)

list_item_next(l, i) == l[((i + 1) % Len(l)) + 1]

list_item(l, i) == IF i < 0 THEN l[i + Len(l) + 1] ELSE l[i + 1]

\* BufferManager.map_buffer
map_buffer(np, buffer_id, indices) ==
    IF ~in_list(np, buffer_id) THEN ErrView("IndexError")
    ELSE IF ~truthy(indices) THEN list_item(np, buffer_id)
    ELSE getitem(list_item(np, buffer_id), indices)

dict_map_buffer_full(nd, buffer_id, buffer_len) == list_item(nd, buffer_id)

\* BufferedDictManager.map_buffer (buffer_id within the list)
dict_map_buffer(nd, buffer_id, buffer_len) ==
    IF ~buffer_len.given THEN list_item(nd, buffer_id)
    ELSE [k \in DOMAIN list_item(nd, buffer_id) |->
             slice0(list_item(nd, buffer_id)[k], buffer_len.val)]

\* ---------------------------------------------------------------- state
VARIABLES
    pool,         \* "none" before the factory ran, then "array" or "dict"
    buffers_shm,  \* the shared arrays (array pool) or records of them (dict pool)
    queue,        \* the free list
    buf_shape,    \* BufferManager.buf_shape; the shapes a shm-dict factory returned
    built,        \* built[c]: consumer c's manager has its buffers_np / buffers_nd
    buffers_np,   \* buffers_np[c]: the views of c's BufferManager
    buffers_nd,   \* buffers_nd[c]: the name -> view mappings of c's BufferedDictManager
    pc,           \* pc[c]: "idle", "blocked" (inside queue.get) or "dead"
    args,         \* args[c]: the arguments of c's blocked get_buffer call
    held,         \* held[c]: the ids get_buffer returned to c and c has not reclaimed
    last,         \* the last call: its name, arguments, exception and result
    drained,      \* [on, ids]: the ids returned so far, while no reclaim has happened (on)
    since,        \* since[i]: get_buffer returns of i since i was last enqueued (0, 1, 2 for more)
    fifo,         \* single-consumer get/reclaim run: still one, caller, gets so far
    nwrites,      \* writes made so far
    lastWrite     \* the last write: by c, into the array (slot, field), at pos, of val

vars == <<pool, buffers_shm, queue, buf_shape, built, buffers_np, buffers_nd, pc,
          args, held, last, drained, since, fifo, nwrites, lastWrite>>

shared == <<pool, buffers_shm, queue, buf_shape>>
managers == <<built, buffers_np, buffers_nd>>
history == <<drained, since, fifo>>
writes == <<nwrites, lastWrite>>

Shapes == {<<n>> : n \in 1..MaxLen} \cup {<<1, n>> : n \in 2..MaxLen}
Lengths == 1..MaxLen

N == Len(buffers_shm)
Ids == 0..(N - 1)
Live(c) == pc[c] # "dead"
NoArgs == [timeout |-> FALSE, buffer_len |-> None]
\* c: the consumer whose manager map_buffer was called on; id: the slot id
\* get_buffer returned or map_buffer or reclaim was given; res: the view or views returned;
\* count: the number of slots a factory was asked for
\* shape, dtype: the arguments of an allocation or a view mapping
NoCall == [op |-> "", c |-> 0, id |-> 0 - 1, count |-> 0, indices |-> IdxNone,
           buffer_len |-> None, shape |-> None, dtype |-> "", err |-> "", res |-> <<>>]
Call(op, c, id, err) == [NoCall EXCEPT !.op = op, !.c = c, !.id = id, !.err = err]
NoWrite == [c |-> 0, slot |-> 0 - 1, field |-> NoField, pos |-> 0, val |-> 0]
NoFifo == [ok |-> FALSE, who |-> 0, n |-> 0]
NoDrain == [on |-> FALSE, ids |-> <<>>]
NewDrain == [on |-> TRUE, ids |-> <<>>]

Init ==
    /\ pool = "none"
    /\ buffers_shm = <<>>
    /\ queue = <<>>
    /\ buf_shape = None
    /\ built = [c \in Consumers |-> FALSE]
    /\ buffers_np = [c \in Consumers |-> <<>>]
    /\ buffers_nd = [c \in Consumers |-> <<>>]
    /\ pc = [c \in Consumers |-> "idle"]
    /\ args = [c \in Consumers |-> NoArgs]
    /\ held = [c \in Consumers |-> {}]
    /\ last = NoCall
    /\ drained = NoDrain
    /\ since = <<>>
    /\ fifo = NoFifo
    /\ nwrites = 0
    /\ lastWrite = NoWrite

\* create_managed_buffers(count, shape, build=build); every consumer process
\* gets the manager (its own copy of the process-local views).
CreateManagedBuffers(count, shape, build) ==
    LET made == create_buffers(count, shape)
    IN /\ pool = "none"
       /\ pool' = "array"
       /\ buffers_shm' = made.buffers
       /\ queue' = made.q
       /\ buf_shape' = Some(shape)
       /\ built' = [c \in Consumers |-> build]
       /\ buffers_np' = [c \in Consumers |->
              IF build THEN rebuild_buffers_np(made.buffers, Some(shape)) ELSE <<>>]
       /\ last' = [Call("create_buffers", 0, 0 - 1, "") EXCEPT !.count = count]
       /\ drained' = NewDrain
       /\ since' = [j \in 1..count |-> 0]
       /\ fifo' = [ok |-> TRUE, who |-> 0, n |-> 0]
       /\ UNCHANGED <<buffers_nd, pc, args, held, writes>>

\* create_dict_buffers(recordables, count, buf_len), then
\* BufferedDictManager(buffers, q, build) in every consumer process.
CreateDictManagers(recordables, count, buf_len, build) ==
    LET made == create_dict_buffers(recordables, count, buf_len)
    IN /\ pool = "none"
       /\ pool' = "dict"
       /\ buffers_shm' = made.buffers
       /\ queue' = made.q
       /\ built' = [c \in Consumers |-> build]
       /\ buffers_nd' = [c \in Consumers |->
              IF build THEN rebuild_buffers_nd(made.buffers) ELSE <<>>]
       /\ last' = [Call("create_dict_buffers", 0, 0 - 1, "") EXCEPT !.count = count]
       /\ drained' = NewDrain
       /\ since' = [j \in 1..count |-> 0]
       /\ fifo' = [ok |-> TRUE, who |-> 0, n |-> 0]
       /\ UNCHANGED <<buf_shape, buffers_np, pc, args, held, writes>>

\* BufferManager.rebuild_buffers in consumer c
rebuild_buffers(c) ==
    /\ pool = "array" /\ pc[c] = "idle"
    /\ buffers_np' = [buffers_np EXCEPT ![c] = rebuild_buffers_np(buffers_shm, buf_shape)]
    /\ built' = [built EXCEPT ![c] = TRUE]
    /\ last' = Call("rebuild_buffers", 0, 0 - 1, "")
    /\ UNCHANGED <<shared, buffers_nd, pc, args, held, history, writes>>

\* BufferedDictManager.rebuild_buffers in consumer c
dict_rebuild_buffers(c) ==
    /\ pool = "dict" /\ pc[c] = "idle"
    /\ buffers_nd' = [buffers_nd EXCEPT ![c] = rebuild_buffers_nd(buffers_shm)]
    /\ built' = [built EXCEPT ![c] = TRUE]
    /\ last' = Call("rebuild_buffers", 0, 0 - 1, "")
    /\ UNCHANGED <<shared, buffers_np, pc, args, held, history, writes>>

\* what get_buffer does once queue.get has returned: consumer c, arguments a
GetDone(c, a) ==
    LET got == queue_get(queue)
        id == got.buffer_id
        views == IF pool = "array" THEN buffers_np[c] ELSE buffers_nd[c]
        err == IF ~built[c] THEN "AttributeError"
               ELSE IF ~in_list(views, id) THEN "IndexError" ELSE ""
        res == IF pool = "array" THEN map_buffer(buffers_np[c], id, IdxNone)
               ELSE dict_map_buffer(buffers_nd[c], id, a.buffer_len)
    IN /\ queue' = got.q
       /\ pc' = [pc EXCEPT ![c] = "idle"]
       /\ args' = [args EXCEPT ![c] = NoArgs]
       /\ IF err = ""
          THEN /\ held' = [held EXCEPT ![c] = @ \cup {id}]
               /\ last' = [Call("get_buffer", 0, id, "") EXCEPT
                              !.buffer_len = a.buffer_len, !.res = res]
               /\ drained' = IF drained.on
                             THEN [drained EXCEPT !.ids = Append(@, id)] ELSE drained
               /\ since' = IF id \in Ids THEN [since EXCEPT ![id + 1] = IF @ < 2 THEN @ + 1 ELSE @]
                             ELSE since
               /\ fifo' = IF fifo.ok /\ fifo.who \in {0, c} /\ held[c] = {}
                          THEN [ok |-> TRUE, who |-> c, n |-> (fifo.n + 1) % N]
                          ELSE NoFifo
          ELSE /\ held' = held
               /\ last' = Call("get_buffer", 0, 0 - 1, err)
               /\ fifo' = NoFifo
               /\ UNCHANGED <<drained, since>>
       /\ UNCHANGED <<pool, buffers_shm, buf_shape, managers, writes>>

\* queue.get finds the queue empty and waits
GetWait(c, a) ==
    /\ pc' = [pc EXCEPT ![c] = "blocked"]
    /\ args' = [args EXCEPT ![c] = a]
    /\ UNCHANGED <<shared, managers, held, last, history, writes>>

\* BufferManager.get_buffer(timeout) called by consumer c
get_buffer(c, timeout) ==
    /\ pool = "array" /\ pc[c] = "idle"
    /\ LET a == [timeout |-> timeout, buffer_len |-> None]
       IN IF queue # <<>> THEN GetDone(c, a) ELSE GetWait(c, a)

\* BufferedDictManager.get_buffer(buffer_len, timeout) called by consumer c
dict_get_buffer(c, buffer_len, timeout) ==
    /\ pool = "dict" /\ pc[c] = "idle"
    /\ LET a == [timeout |-> timeout, buffer_len |-> buffer_len]
       IN IF queue # <<>> THEN GetDone(c, a) ELSE GetWait(c, a)

\* a waiting queue.get returns an id that has become free
get_resume(c) ==
    /\ pc[c] = "blocked" /\ queue # <<>>
    /\ GetDone(c, args[c])

\* a waiting queue.get(timeout=t) reaches its deadline: queue.Empty is raised
get_timeout(c) ==
    /\ pc[c] = "blocked" /\ args[c].timeout
    /\ pc' = [pc EXCEPT ![c] = "idle"]
    /\ args' = [args EXCEPT ![c] = NoArgs]
    /\ queue' = queue_timeout(queue)
    /\ last' = Call("get_buffer", 0, 0 - 1, "Empty")
    /\ fifo' = NoFifo
    /\ UNCHANGED <<pool, buffers_shm, buf_shape, managers, held, drained, since, writes>>

\* what reclaim(buffer_id) does, for both managers
Reclaim(c, buffer_id) ==
    /\ pc[c] = "idle"
    /\ queue' = queue_put(queue, buffer_id)
    /\ held' = [held EXCEPT ![c] = @ \ {buffer_id}]
    /\ last' = Call("reclaim", 0, buffer_id, "")
    /\ drained' = NoDrain
    /\ since' = IF buffer_id \in Ids THEN [since EXCEPT ![buffer_id + 1] = 0] ELSE since
    /\ fifo' = IF fifo.ok /\ fifo.who = c /\ held[c] = {buffer_id} THEN fifo ELSE NoFifo
    /\ UNCHANGED <<pool, buffers_shm, buf_shape, managers, pc, args, writes>>

\* BufferManager.reclaim
reclaim(c, buffer_id) == pool = "array" /\ Reclaim(c, buffer_id)

\* BufferedDictManager.reclaim
dict_reclaim(c, buffer_id) == pool = "dict" /\ Reclaim(c, buffer_id)

\* consumer c terminates abnormally; what it holds stays checked out
Crash(c) ==
    /\ pool # "none" /\ Live(c)
    /\ pc' = [pc EXCEPT ![c] = "dead"]
    /\ args' = [args EXCEPT ![c] = NoArgs]
    /\ last' = Call("crash", 0, 0 - 1, "")
    /\ fifo' = NoFifo
    /\ UNCHANGED <<shared, managers, held, drained, since, writes>>

\* the shared array a view aliases, and the elements seen through the view
array_of(shm, v) ==
    IF v.field = NoField THEN shm[v.slot + 1] ELSE shm[v.slot + 1][v.field]

read(shm, v) == [j \in 1..size(v) |-> array_of(shm, v).data[v.off + j]]

\* view.flat[pos] = val: the shared arrays afterwards
write(shm, v, pos, val) ==
    IF v.field = NoField
    THEN [shm EXCEPT ![v.slot + 1].data[v.off + pos + 1] = val]
    ELSE [shm EXCEPT ![v.slot + 1][v.field].data[v.off + pos + 1] = val]

\* consumer c writes val at flat position pos of the view v it got with a slot
Write(c, v, pos, val) ==
    /\ pc[c] = "idle" /\ nwrites < MaxWrites
    /\ buffers_shm' = write(buffers_shm, v, pos, val)
    /\ nwrites' = nwrites + 1
    /\ lastWrite' = [c |-> c, slot |-> v.slot, field |-> v.field, pos |-> v.off + pos,
                     val |-> val]
    /\ last' = Call("write", 0, 0 - 1, "")
    /\ UNCHANGED <<pool, queue, buf_shape, managers, pc, args, held, history>>

\* the views in what a get_buffer or map_buffer call returned
views_in(res) == IF pool = "array" THEN {res} ELSE {res[k] : k \in DOMAIN res}

\* the views consumer c may use: those its manager maps for the ids it holds
\* (get_buffer returned them, or their leading parts)
HeldViews(c) ==
    IF ~built[c] THEN {}
    ELSE UNION {views_in(IF pool = "array"
                         THEN map_buffer(buffers_np[c], i, IdxNone)
                         ELSE dict_map_buffer(buffers_nd[c], i, None)) : i \in held[c]}

\* BufferManager.map_buffer(buffer_id, indices) called by consumer c
MapBuffer(c, buffer_id, indices) ==
    /\ pool = "array" /\ pc[c] = "idle" /\ built[c]
    /\ LET res == map_buffer(buffers_np[c], buffer_id, indices)
       IN last' = [Call("map_buffer", c, buffer_id, res.err) EXCEPT
                      !.indices = indices, !.res = res]
    /\ UNCHANGED <<shared, managers, pc, args, held, history, writes>>

\* BufferedDictManager.map_buffer(buffer_id, buffer_len) called by consumer c
DictMapBuffer(c, buffer_id, buffer_len) ==
    /\ pool = "dict" /\ pc[c] = "idle" /\ built[c]
    /\ in_list(buffers_nd[c], buffer_id)
    /\ last' = [Call("map_buffer", c, buffer_id, "") EXCEPT
                   !.buffer_len = buffer_len,
                   !.res = dict_map_buffer(buffers_nd[c], buffer_id, buffer_len)]
    /\ UNCHANGED <<shared, managers, pc, args, held, history, writes>>

\* ------------------------------------------------------- specifications
Counts == 1..MaxCount
BufferLens == {None} \cup {Some(n) : n \in 0..MaxLen}
Indices == {IdxNone, IdxTuple(<<>>)} \cup {IdxInt(k) : k \in 0..(MaxLen - 1)}
               \cup {IdxTuple(<<k>>) : k \in 0..(MaxLen - 1)}

\* a pool of any size, shape and length
Create ==
    \/ \E count \in Counts, shape \in Shapes, build \in BOOLEAN :
           CreateManagedBuffers(count, shape, build)
    \/ \E count \in Counts, buf_len \in Lengths, build \in BOOLEAN :
           CreateDictManagers(Recordables, count, buf_len, build)

\* a pool of any size, of the longest buffers
CreateLong ==
    \/ \E count \in Counts, build \in BOOLEAN :
           CreateManagedBuffers(count, <<MaxLen>>, build)
    \/ \E count \in Counts, build \in BOOLEAN :
           CreateDictManagers(Recordables, count, MaxLen, build)

\* The checkout protocol: each worker rebuilds its views before it asks for a
\* buffer, and reclaims only an id it holds.
Rebuild ==
    \/ \E c \in Consumers : rebuild_buffers(c)
    \/ \E c \in Consumers : dict_rebuild_buffers(c)

Get ==
    \/ \E c \in Consumers, timeout \in BOOLEAN : built[c] /\ get_buffer(c, timeout)
    \/ \E c \in Consumers, timeout \in BOOLEAN :
           built[c] /\ dict_get_buffer(c, None, timeout)
    \/ \E c \in Consumers : get_resume(c)
    \/ \E c \in Consumers : get_timeout(c)

Put ==
    \/ \E c \in Consumers : \E id \in held[c] : reclaim(c, id)
    \/ \E c \in Consumers : \E id \in held[c] : dict_reclaim(c, id)

Next ==
    \/ CreateLong
    \/ Rebuild
    \/ Get
    \/ Put
    \/ \E c \in Consumers : Crash(c)

Spec == Init /\ [][Next]_vars

\* The protocol, with get_buffer called while a buffer is free and without
\* crashes, and with the holders writing into their buffers.
NextData ==
    \/ CreateLong
    \/ Rebuild
    \/ \E c \in Consumers : built[c] /\ queue # <<>> /\ get_buffer(c, FALSE)
    \/ \E c \in Consumers : built[c] /\ queue # <<>> /\ dict_get_buffer(c, None, FALSE)
    \/ Put
    \/ \E c \in Consumers : \E v \in HeldViews(c) : \E pos \in 0..(size(v) - 1) :
           \E val \in Values : Write(c, v, pos, val)

SpecData == Init /\ [][NextData]_vars

\* The protocol on a pool of records, with get_buffer called while a buffer
\* is free and without crashes, with every buffer_len.
NextDict ==
    \/ \E count \in Counts, buf_len \in Lengths, build \in BOOLEAN :
           CreateDictManagers(Recordables, count, buf_len, build)
    \/ \E c \in Consumers : dict_rebuild_buffers(c)
    \/ \E c \in Consumers, buffer_len \in BufferLens :
           built[c] /\ queue # <<>> /\ dict_get_buffer(c, buffer_len, FALSE)
    \/ \E c \in Consumers : \E id \in held[c] : dict_reclaim(c, id)

SpecDict == Init /\ [][NextDict]_vars

\* a pool of fewer than MaxCount slots, of the longest buffers
CreateSmall ==
    \/ \E count \in 1..(MaxCount - 1), build \in BOOLEAN :
           CreateManagedBuffers(count, <<MaxLen>>, build)
    \/ \E count \in 1..(MaxCount - 1), build \in BOOLEAN :
           CreateDictManagers(Recordables, count, MaxLen, build)

\* Any use of the managers: get_buffer also before rebuild_buffers, reclaim
\* of any integer of 0..N, held by the caller or not, while the free list has
\* fewer than MaxQueue entries.
NextAny ==
    \/ CreateSmall
    \/ Rebuild
    \/ \E c \in Consumers, timeout \in BOOLEAN : get_buffer(c, timeout)
    \/ \E c \in Consumers, timeout \in BOOLEAN : dict_get_buffer(c, None, timeout)
    \/ \E c \in Consumers : get_resume(c)
    \/ \E c \in Consumers : get_timeout(c)
    \/ \E c \in Consumers, id \in 0..N : Len(queue) < MaxQueue /\ reclaim(c, id)
    \/ \E c \in Consumers, id \in 0..N : Len(queue) < MaxQueue /\ dict_reclaim(c, id)

SpecAny == Init /\ [][NextAny]_vars

\* The worker loop: a worker rebuilds its views once, then asks for a buffer
\* without a timeout while it holds none, and reclaims the buffer it holds;
\* no worker terminates.
WorkerRebuilds(c) ==
    /\ ~built[c]
    /\ (rebuild_buffers(c) \/ dict_rebuild_buffers(c))

WorkerGets(c) ==
    /\ built[c] /\ held[c] = {}
    /\ (get_buffer(c, FALSE) \/ dict_get_buffer(c, None, FALSE))

WorkerReclaims(c) ==
    \E id \in held[c] : reclaim(c, id) \/ dict_reclaim(c, id)

NextLive ==
    \/ CreateLong
    \/ \E c \in Consumers : WorkerRebuilds(c)
    \/ \E c \in Consumers : WorkerGets(c)
    \/ \E c \in Consumers : get_resume(c)
    \/ \E c \in Consumers : WorkerReclaims(c)

\* Every worker keeps taking its next step; a waiting queue.get that can
\* return again and again does return (a waiting reader of the queue is not
\* overtaken for ever).
SpecLive ==
    /\ Init /\ [][NextLive]_vars
    /\ \A c \in Consumers :
          /\ WF_vars(WorkerRebuilds(c))
          /\ WF_vars(WorkerGets(c))
          /\ WF_vars(WorkerReclaims(c))
          /\ SF_vars(get_resume(c))

\* Calls of map_buffer on a built manager.
NextMap ==
    \/ Create
    \/ Rebuild
    \/ \E c \in Consumers, id \in Ids, indices \in Indices : MapBuffer(c, id, indices)
    \/ \E c \in Consumers, id \in Ids, buffer_len \in BufferLens :
           DictMapBuffer(c, id, buffer_len)

SpecMap == Init /\ [][NextMap]_vars

\* ------------------------------------------- allocation and view mapping
\* dtype arguments: the registered ones and one that is not
Dtypes == Registered \cup {"int32"}
\* shapes to allocate, and shapes to view an array with
AllocShapes == {<<>>} \cup {<<n>> : n \in 1..MaxLen}
                   \cup {<<m, n>> : m \in 1..MaxLen, n \in 1..MaxLen}
ViewShapes == {<<>>} \cup {<<n>> : n \in 0..MaxLen}
                  \cup {<<m, n>> : m \in 0..MaxLen, n \in 0..MaxLen}
\* shapes of the fields of a record: scalar, vectors, columns
FieldShapes == {<<>>} \cup {<<n>> : n \in 1..MaxLen} \cup {<<n, 1>> : n \in 2..MaxLen}

\* init_shm_ndarray(shape, dtype) called on its own: _numpy_to_ctypes[...]
\* raises KeyError before mp.Array is reached
InitShmNdarray(shape, dtype) ==
    /\ pool = "none"
    /\ IF dtype \in Registered
       THEN /\ pool' = "raw"
            /\ buffers_shm' = <<init_shm_ndarray(0, NoField, shape, dtype)>>
            /\ last' = [Call("init_shm_ndarray", 0, 0 - 1, "") EXCEPT
                           !.shape = Some(shape), !.dtype = dtype]
       ELSE /\ UNCHANGED <<pool, buffers_shm>>
            /\ last' = [Call("init_shm_ndarray", 0, 0 - 1, "KeyError") EXCEPT
                           !.shape = Some(shape), !.dtype = dtype]
    /\ UNCHANGED <<queue, buf_shape, managers, pc, args, held, history, writes>>

\* mp.Value(type, lock=False): one zero element of the type
init_shm_value(dtype) ==
    [slot |-> 0, field |-> NoField,
     _type_ |-> ArrayType(_numpy_to_ctypes(dtype)), data |-> Zeros(1)]

\* init_shm_value(dtype) called on its own
InitShmValue(dtype) ==
    /\ pool = "none"
    /\ IF dtype \in Registered
       THEN /\ pool' = "value"
            /\ buffers_shm' = <<init_shm_value(dtype)>>
            /\ last' = [Call("init_shm_value", 0, 0 - 1, "") EXCEPT !.dtype = dtype]
       ELSE /\ UNCHANGED <<pool, buffers_shm>>
            /\ last' = [Call("init_shm_value", 0, 0 - 1, "KeyError") EXCEPT
                           !.dtype = dtype]
    /\ UNCHANGED <<queue, buf_shape, managers, pc, args, held, history, writes>>

\* shm_as_ndarray(mp_array, shape) on the allocated array
ShmAsNdarray(shape) ==
    /\ pool = "raw"
    /\ LET res == shm_as_ndarray(buffers_shm[1], shape)
       IN last' = [Call("shm_as_ndarray", 0, 0 - 1, res.err) EXCEPT
                      !.shape = shape, !.res = res]
    /\ UNCHANGED <<shared, managers, pc, args, held, history, writes>>

\* shape_map[k] is None or len(shape_map[k]) == 0
no_shape(shape) == ~shape.given \/ Len(shape.val) = 0

\* create_shm_dict_inputs(shape_map, dtype), dtype registered
create_shm_dict_inputs(shape_map, dtype) ==
    [buffers |-> [k \in DOMAIN shape_map |->
                     IF no_shape(shape_map[k])
                     THEN init_shm_ndarray(0, k, <<1>>, dtype)
                     ELSE init_shm_ndarray(0, k, shape_map[k].val, dtype)],
     shapes |-> shape_map]

shm_to_nd_dict_inputs_plain(buffers, shapes) ==
    [k \in DOMAIN buffers |-> shm_as_ndarray(buffers[k], shapes[k])]

\* shm_to_nd_dict_inputs(buffers, shapes): the views, one of them an error when
\* its reshape raises
shm_to_nd_dict_inputs(buffers, shapes) ==
    [k \in DOMAIN buffers |->
        IF no_shape(shapes[k]) THEN shm_as_ndarray(buffers[k], Some(<<1>>))
        ELSE shm_as_ndarray(buffers[k], shapes[k])]

\* the exception a loop over the fields raises, "" when every view was made
first_err(nd_dict) ==
    IF \E k \in DOMAIN nd_dict : nd_dict[k].err # ""
    THEN nd_dict[CHOOSE k \in DOMAIN nd_dict : nd_dict[k].err # ""].err
    ELSE ""

\* shape maps over the recordables: a field has a shape, an empty shape or None
ShapeMaps == [Recordables -> {None} \cup {Some(sh) : sh \in FieldShapes}]

\* create_shm_dict_inputs(shape_map, dtype) called on its own
CreateShmDictInputs(shape_map, dtype) ==
    /\ pool = "none"
    /\ IF dtype \in Registered
       THEN LET made == create_shm_dict_inputs(shape_map, dtype)
            IN /\ pool' = "inputs"
               /\ buffers_shm' = <<made.buffers>>
               /\ buf_shape' = Some(made.shapes)
               /\ last' = [Call("create_shm_dict_inputs", 0, 0 - 1, "") EXCEPT
                              !.shape = Some(shape_map), !.dtype = dtype]
       ELSE /\ UNCHANGED <<pool, buffers_shm, buf_shape>>
            /\ last' = [Call("create_shm_dict_inputs", 0, 0 - 1, "KeyError") EXCEPT
                           !.shape = Some(shape_map), !.dtype = dtype]
    /\ UNCHANGED <<queue, managers, pc, args, held, history, writes>>

\* shm_to_nd_dict_inputs(buffers, shapes) on what create_shm_dict_inputs returned
ShmToNdDictInputs ==
    /\ pool = "inputs"
    /\ LET res == shm_to_nd_dict_inputs(buffers_shm[1], buf_shape.val)
       IN last' = [Call("shm_to_nd_dict_inputs", 0, 0 - 1, first_err(res)) EXCEPT
                      !.shape = buf_shape,
                      !.res = IF first_err(res) = "" THEN res ELSE <<>>]
    /\ UNCHANGED <<shared, managers, pc, args, held, history, writes>>

\* A shape argument of shm_to_nd_dict: items says whether it has .items (a
\* per-field mapping of shapes); otherwise val is None or one common shape.
CommonShape(sh) == [items |-> FALSE, val |-> sh]
ShapeDict(m) == [items |-> TRUE, val |-> m]

RECURSIVE shm_to_nd_dict_loop_sticky(_, _, _, _, _)
shm_to_nd_dict_loop_sticky(keys, buffers, shape, to_shape, nd_dict) ==
    IF keys = <<>> THEN nd_dict
    ELSE LET k == Head(keys)
             new_to_shape == IF shape.items /\ ~to_shape.given THEN Some(shape.val[k])
                             ELSE to_shape
             v == shm_as_ndarray(buffers[k], new_to_shape)
         IN shm_to_nd_dict_loop_sticky(Tail(keys), buffers, shape, new_to_shape,
                [x \in DOMAIN nd_dict \cup {k} |-> IF x = k THEN v ELSE nd_dict[x]])

RECURSIVE shm_to_nd_dict_loop(_, _, _, _, _)
\* the loop of shm_to_nd_dict over the fields still to visit; to_shape is
\* the local variable the loop carries from one field to the next
shm_to_nd_dict_loop(keys, buffers, shape, to_shape, nd_dict) ==
    IF keys = <<>> THEN nd_dict
    ELSE LET k == Head(keys)
             new_to_shape == IF shape.items THEN Some(shape.val[k]) ELSE to_shape
             v == shm_as_ndarray(buffers[k], new_to_shape)
         IN shm_to_nd_dict_loop(Tail(keys), buffers, shape, new_to_shape,
                [x \in DOMAIN nd_dict \cup {k} |-> IF x = k THEN v ELSE nd_dict[x]])

\* shm_to_nd_dict(buffers, shape), the fields visited in the order keys
shm_to_nd_dict_shaped(buffers, shape, keys) ==
    shm_to_nd_dict_loop(keys, buffers, shape,
                        IF shape.items THEN None ELSE shape.val, <<>>)

\* the orders list(buffers.items()) can have
KeyOrders == {ks \in [1..Cardinality(Recordables) -> Recordables] :
                 \A i, j \in DOMAIN ks : i # j => ks[i] # ks[j]}
ShapeArgs == {CommonShape(None)} \cup {CommonShape(Some(sh)) : sh \in FieldShapes}
                 \cup {ShapeDict(m) : m \in [Recordables -> FieldShapes]}

\* shm_to_nd_dict(buffers, shape) on a record of shared arrays
ShmToNdDict(shape, keys) ==
    /\ pool = "inputs"
    /\ LET res == shm_to_nd_dict_shaped(buffers_shm[1], shape, keys)
       IN last' = [Call("shm_to_nd_dict", 0, 0 - 1, first_err(res)) EXCEPT
                      !.shape = shape,
                      !.res = IF first_err(res) = "" THEN res ELSE <<>>]
    /\ UNCHANGED <<shared, managers, pc, args, held, history, writes>>

NextShm ==
    \/ \E shape \in AllocShapes, dtype \in Dtypes : InitShmNdarray(shape, dtype)
    \/ \E dtype \in Dtypes : InitShmValue(dtype)
    \/ \E shape \in ViewShapes : ShmAsNdarray(Some(shape))
    \/ ShmAsNdarray(None)
    \/ \E shape_map \in ShapeMaps, dtype \in Dtypes : CreateShmDictInputs(shape_map, dtype)
    \/ ShmToNdDictInputs
    \/ \E shape \in ShapeArgs, keys \in KeyOrders : ShmToNdDict(shape, keys)

SpecShm == Init /\ [][NextShm]_vars

\* ---------------------------------------------------------------- claims
InQueue(i) == i \in SeqToSet(queue)
HoldersOf(i) == {c \in Consumers : i \in held[c]}
Dead == {c \in Consumers : pc[c] = "dead"}
Lost == UNION {held[c] : c \in Dead}
Returned == last.op = "get_buffer" /\ last.err = ""

\* C1: every slot id is in the free list or held by exactly one consumer,
\* never both; the free list holds no id twice and only ids of [0, N).
C1_FreeOrHeldByOne ==
    /\ \A i \in Ids : IF InQueue(i) THEN HoldersOf(i) = {}
                      ELSE Cardinality(HoldersOf(i)) = 1
    /\ \A j, k \in 1..Len(queue) : j # k => queue[j] # queue[k]
    /\ SeqToSet(queue) \subseteq Ids
    /\ \A c \in Consumers : held[c] \subseteq Ids

C1_Witness ==
    /\ N = MaxCount /\ Len(queue) = 1
    /\ \A c \in Consumers : held[c] # {}
    /\ last.op = "reclaim"

\* C2: an id is not returned to a second consumer unless it was reclaimed in
\* between: since an id was last enqueued, get_buffer has returned it at most
\* once, and when it is returned no other consumer holds it.
C2_NoDoubleDequeue ==
    /\ \A i \in Ids : since[i + 1] <= 1
    /\ Returned => Cardinality(HoldersOf(last.id)) = 1

C2_Witness ==
    /\ Returned
    /\ \A c \in Consumers : held[c] # {}
    /\ ~drained.on /\ Cardinality(HoldersOf(last.id)) = 1

\* C3: with no reclaim, the k-th get_buffer returns id k-1 for k = 1..N, so N
\* calls return 0..N-1; once N ids are out the free list is empty, and a call
\* waits or times out only then.
C3_DrainThenBlock ==
    drained.on =>
        /\ Len(drained.ids) <= N
        /\ \A j \in 1..Len(drained.ids) : drained.ids[j] = j - 1
        /\ Len(drained.ids) = N => queue = <<>>
        /\ \A c \in Consumers : pc[c] = "blocked" => Len(drained.ids) = N
        /\ last.err = "Empty" => Len(drained.ids) = N

C3_Witness ==
    /\ drained.on /\ N = MaxCount /\ Len(drained.ids) = N
    /\ last.err = "Empty"
    /\ \E c \in Consumers : pc[c] = "blocked"

\* C4: get_buffer returns the head of the free list and removes it, reclaim
\* appends behind the ids already free; a single consumer that reclaims each
\* id before its next call gets the ids in the order 0, 1, .., N-1, 0, ..
C4_Fifo ==
    [][/\ Len(queue') < Len(queue) =>
              queue' = Tail(queue) /\ last'.id = Head(queue)
       /\ (Len(queue') > Len(queue) /\ pool # "none") =>
              \E c \in Consumers : \E i \in held[c] :
                  held'[c] = held[c] \ {i} /\ queue' = Append(queue, i)
       /\ (fifo'.ok /\ Returned') => last'.id = (fifo'.n + N' - 1) % N']_vars

C4_Witness ==
    /\ fifo.ok /\ N = 3 /\ Returned
    /\ last.id = 2 /\ queue = <<0, 1>>

\* C5: a get_buffer call that times out changes neither the free list, nor
\* what any consumer holds, nor the buffers and views.
C5_TimeoutNoEffect ==
    [][(last'.err = "Empty" /\ \E c \in Consumers : pc[c] = "blocked" /\ pc'[c] = "idle")
          => UNCHANGED <<queue, held, buffers_shm, managers>>]_vars

C5_Witness ==
    /\ last.err = "Empty" /\ \A c \in Consumers : pc[c] = "idle"
    /\ N = MaxCount /\ queue = <<>>

\* C6: right after the factory returns there are count buffers (records with
\* exactly the given field names), the free list is 0..count-1 in ascending
\* order and no id is checked out.
C6_InitialAllFree ==
    last.op \in {"create_buffers", "create_dict_buffers"} =>
        /\ Len(buffers_shm) = last.count
        /\ queue = Range0(last.count)
        /\ \A c \in Consumers : held[c] = {}
        /\ pool = "dict" => \A j \in 1..N : DOMAIN buffers_shm[j] = Recordables

C6_Witness ==
    /\ last.op = "create_dict_buffers" /\ last.count = MaxCount
    /\ queue = Range0(MaxCount)

\* C7: an id held by a consumer that terminated stays lost: it is never in
\* the free list, never held by or returned to another consumer, and the
\* slots free or held by live consumers number N less the lost ones.
C7_CrashLosesSlot ==
    [][/\ Lost \subseteq Lost'
       /\ \A i \in Lost' :
             /\ i \notin SeqToSet(queue')
             /\ HoldersOf(i)' \subseteq Dead'
             /\ Returned' => last'.id # i
       /\ Cardinality(SeqToSet(queue') \cup
                      UNION {held'[c] : c \in Consumers \ Dead'})
              = N' - Cardinality(Lost')]_vars

C7_Witness ==
    /\ Lost # {} /\ Returned
    /\ last.op = "get_buffer" /\ queue = <<>>
    /\ \E c \in Consumers : pc[c] = "blocked"

Fields == IF pool = "array" THEN {NoField} ELSE Recordables
ArrayAt(slot, field) ==
    IF pool = "array" THEN buffers_shm[slot + 1] ELSE buffers_shm[slot + 1][field]
ViewOf(c, slot, field) ==
    IF pool = "array" THEN buffers_np[c][slot + 1] ELSE buffers_nd[c][slot + 1][field]
Built == {c \in Consumers : built[c]}

\* every view of a slot shows that slot's shared array
ViewsAlias ==
    \A c \in Built, i \in Ids, k \in Fields :
        read(buffers_shm, ViewOf(c, i, k)) = ArrayAt(i, k).data

\* the value last written is read at its place through every manager's view
WriteVisible ==
    lastWrite.slot >= 0 =>
        \A c \in Built :
            LET v == ViewOf(c, lastWrite.slot, lastWrite.field)
            IN read(buffers_shm, v)[lastWrite.pos - v.off + 1] = lastWrite.val

\* C8: what was last written through a view is read at that place through
\* every manager's view of the slot, before and after rebuild_buffers; every
\* view of a slot shows that slot's shared array; rebuild_buffers changes
\* neither the arrays nor the free list.
C8_SharedThroughRebuild ==
    [][/\ ViewsAlias'
       /\ WriteVisible'
       /\ (pool # "none" /\ (managers' # managers \/
                               (last'.op = "rebuild_buffers" /\ last' # last))) =>
             UNCHANGED <<buffers_shm, queue>>]_vars

C8_Witness ==
    /\ N >= 2 /\ lastWrite.slot = N - 1 /\ lastWrite.pos >= 1
    /\ last.op = "rebuild_buffers" /\ Built = Consumers
    /\ \A c \in Consumers :
           read(buffers_shm, ViewOf(c, lastWrite.slot, lastWrite.field))[lastWrite.pos + 1]
               = lastWrite.val
    /\ lastWrite.val # 0

\* C9: map_buffer(slot_id, indices) returns view[indices] of the slot's view
\* for every supplied indices, and the whole view only when indices is omitted.
C9_MapBufferProjects ==
    (last.op = "map_buffer" /\ pool = "array") =>
        LET whole == list_item(buffers_np[last.c], last.id)
        IN last.res = IF last.indices.kind = "None" THEN whole
                      ELSE getitem(whole, last.indices)

\* C10: BufferedDictManager.get_buffer(buffer_len=L), 0 <= L <= the allocated
\* length, returns for exactly the record's fields views of leading length L
\* over the first L elements of the field's full view; without buffer_len it
\* returns the full views.
C10_TruncatedViews ==
    (Returned /\ pool = "dict") =>
        \A c \in Built :
            LET full == list_item(buffers_nd[c], last.id)
                L == last.buffer_len.val
            IN /\ DOMAIN last.res = DOMAIN list_item(buffers_shm, last.id)
               /\ ~last.buffer_len.given => last.res = full
               /\ last.buffer_len.given =>
                     \A k \in DOMAIN last.res :
                         L <= Head(full[k].shape) =>
                             /\ last.res[k].shape = <<L>>
                             /\ last.res[k].slot = last.id
                             /\ last.res[k].field = k
                             /\ last.res[k].off = full[k].off
                             /\ read(buffers_shm, last.res[k])
                                    = SubSeq(read(buffers_shm, full[k]), 1, L)

C10_Witness ==
    /\ Returned /\ pool = "dict" /\ last.buffer_len.given
    /\ last.buffer_len.val = 1 /\ last.id = 1
    /\ \A k \in Recordables : Len(list_item(buffers_shm, last.id)[k].data) = 2

\* C11: shm_as_ndarray(buffer, shape) succeeds exactly when the product of
\* the shape's dimensions is the buffer's element count, then giving a view
\* of that shape over the whole buffer, and raises ValueError otherwise; with
\* shape omitted it gives the flat view of the whole buffer; the buffer is
\* left as it was.
C11_ShapeMatch ==
    [][(last'.op = "shm_as_ndarray" /\ last' # last) =>
          LET n == Len(buffers_shm[1].data)
              r == last'.res
          IN /\ buffers_shm' = buffers_shm
             /\ last'.err \in {"", "ValueError"}
             /\ last'.shape.given =>
                   /\ last'.err = "" <=> prod(last'.shape.val) = n
                   /\ last'.err = "" => r.shape = last'.shape.val
             /\ ~last'.shape.given => (last'.err = "" /\ r.shape = <<n>>)
             /\ last'.err = "" =>
                   /\ r.slot = 0 /\ r.field = NoField /\ r.off = 0
                   /\ size(r) = n]_vars

C11_Witness ==
    /\ last.op = "shm_as_ndarray" /\ last.err = "ValueError"
    /\ last.shape = Some(<<MaxLen, 1>>) /\ Len(buffers_shm[1].data) = MaxLen * MaxLen

C12_ShapedInputs ==
    /\ (last.op = "create_shm_dict_inputs" /\ last.err = "") =>
          LET shape_map == last.shape.val
          IN /\ DOMAIN buffers_shm[1] = DOMAIN shape_map
             /\ buf_shape = Some(shape_map)
             /\ \A k \in DOMAIN shape_map :
                   Len(buffers_shm[1][k].data) =
                       IF ~shape_map[k].given \/ shape_map[k].val = <<>> THEN 1
                       ELSE prod(shape_map[k].val)
    /\ last.op = "shm_to_nd_dict_inputs" =>
          LET shapes == last.shape.val
          IN /\ last.err = ""
             /\ DOMAIN last.res = DOMAIN shapes
             /\ \A k \in DOMAIN shapes :
                   /\ last.res[k].shape =
                          IF ~shapes[k].given \/ shapes[k].val = <<>> THEN <<1>>
                          ELSE shapes[k].val
                   /\ last.res[k].field = k /\ last.res[k].off = 0
                   /\ size(last.res[k]) = Len(buffers_shm[1][k].data)

C12_Witness ==
    /\ last.op = "shm_to_nd_dict_inputs" /\ last.err = ""
    /\ last.shape.val["p"] = Some(<<>>) /\ last.shape.val["q"] = Some(<<MaxLen>>)
    /\ last.res["p"].shape = <<1>> /\ last.res["q"].shape = <<MaxLen>>

\* C14: shm_to_nd_dict(buffers, shape) returns views for exactly the fields
\* of buffers: each of the common shape when shape is one shape, each of
\* shape[k] when shape maps the fields to shapes, each flat when shape is
\* None, whatever the order the fields are visited in; it raises only when
\* some field's shape does not fit that field's buffer.
C14_NamedViews ==
    (last.op = "shm_to_nd_dict") =>
        LET buffers == buffers_shm[1]
            shape == last.shape
            want(k) == IF shape.items THEN shape.val[k]
                       ELSE IF shape.val.given THEN shape.val.val
                       ELSE <<Len(buffers[k].data)>>
        IN /\ last.err = "" =>
                 /\ DOMAIN last.res = DOMAIN buffers
                 /\ \A k \in DOMAIN buffers :
                       /\ last.res[k].shape = want(k)
                       /\ last.res[k].field = k /\ last.res[k].off = 0
           /\ last.err # "" =>
                 \E k \in DOMAIN buffers : prod(want(k)) # Len(buffers[k].data)

C14_Witness ==
    /\ last.op = "shm_to_nd_dict" /\ last.err = "" /\ last.shape.items
    /\ last.shape.val["p"] = <<MaxLen, 1>> /\ last.shape.val["q"] = <<1>>
    /\ last.res["p"].shape = <<MaxLen, 1>> /\ last.res["q"].shape = <<1>>

\* C15: a get_buffer call that raises instead of returning leaves the free
\* list as it was, also on a manager made with build=False before
\* rebuild_buffers.
C15_FailedGetKeepsQueue ==
    [][(last'.op = "get_buffer" /\ last'.err # "" /\ last' # last) =>
          queue' = queue]_vars

\* C16: reclaim(buffer_id) can be called by any consumer with any integer,
\* held by the caller or not, free already or outside [0, N): it raises
\* nothing, appends the integer at the tail of the free list, which grows by
\* one, and changes nothing else; it is never made to wait.
C16_ReclaimUnchecked ==
    /\ [](\A c \in Consumers, id \in 0..N :
            (pool \in {"array", "dict"} /\ pc[c] = "idle") => ENABLED Reclaim(c, id))
    /\ [][(last'.op = "reclaim" /\ (last' # last \/ queue' # queue)) =>
            /\ last'.err = ""
            /\ queue' = Append(queue, last'.id)
            /\ Len(queue') = Len(queue) + 1
            /\ UNCHANGED <<pool, buffers_shm, buf_shape, managers, pc>>]_vars

C16_Witness ==
    /\ last.op = "reclaim" /\ last.id = N
    /\ Len(queue) = MaxQueue /\ queue[1] = queue[2]
    /\ \E c \in Consumers : queue[3] \in held[c]

\* the views a get_buffer call returned, by field (NoField for an array pool)
ResView(res, k) == IF pool = "array" THEN res ELSE res[k]

\* C17: get_buffer and reclaim leave the shared arrays and every manager's
\* views as they were: get_buffer only takes the head of the free list and
\* gives it to one consumer, reclaim only appends to the free list; the views
\* get_buffer returns show the slot's arrays as they are, so what was last
\* written into the slot is what the consumer that gets it next reads.
C17_ContentsUntouched ==
    [][/\ (last'.op = "get_buffer" /\ last'.err = "" /\ queue' # queue) =>
             /\ UNCHANGED <<pool, buffers_shm, buf_shape, managers>>
             /\ queue' = Tail(queue) /\ last'.id = Head(queue)
             /\ \E c \in Consumers :
                   /\ held' = [held EXCEPT ![c] = @ \cup {last'.id}]
                   /\ buffers_np'[c] = buffers_np[c] /\ buffers_nd'[c] = buffers_nd[c]
             /\ \A k \in Fields :
                   read(buffers_shm', ResView(last'.res, k)) = ArrayAt(last'.id, k).data
             /\ lastWrite.slot = last'.id =>
                   read(buffers_shm', ResView(last'.res, lastWrite.field))[lastWrite.pos + 1]
                       = lastWrite.val
       /\ (last'.op = "reclaim" /\ queue' # queue) =>
             /\ UNCHANGED <<pool, buffers_shm, buf_shape, managers, pc>>
             /\ \A c \in Consumers : held'[c] \subseteq held[c]]_vars

C17_Witness ==
    /\ Returned /\ lastWrite.slot = last.id /\ lastWrite.val # 0
    /\ lastWrite.c # 0 /\ HoldersOf(last.id) = Consumers \ {lastWrite.c}
    /\ read(buffers_shm, ResView(last.res, lastWrite.field))[lastWrite.pos + 1]
           = lastWrite.val

\* two views alias a common element of shared storage
Overlap(v, w) ==
    /\ v.slot = w.slot /\ v.field = w.field
    /\ size(v) > 0 /\ size(w) > 0
    /\ v.off < w.off + size(w) /\ w.off < v.off + size(v)

\* C18: get_buffer returns with id i the views of the whole of the i-th
\* buffer (record); in every manager the views of id i lie within the arrays
\* of buffer i, so views of distinct ids share no element; so, consumers
\* reclaiming only ids they hold and using only the views of ids they hold,
\* no element is reachable by two consumers at once.
C18_DisjointSlots ==
    /\ Returned =>
          \A k \in Fields :
              LET v == ResView(last.res, k)
              IN /\ v.slot = last.id /\ v.field = k /\ v.off = 0
                 /\ size(v) = Len(ArrayAt(last.id, k).data)
    /\ \A c \in Built, i \in Ids, k \in Fields :
          LET v == ViewOf(c, i, k)
          IN /\ v.slot = i /\ v.field = k
             /\ v.off >= 0 /\ v.off + size(v) <= Len(ArrayAt(i, k).data)
    /\ \A c \in Consumers, d \in Consumers :
          c # d => \A v \in HeldViews(c), w \in HeldViews(d) : ~Overlap(v, w)

C18_Witness ==
    /\ Returned /\ pool = "dict" /\ N = MaxCount
    /\ \A c \in Consumers : held[c] # {} /\ HeldViews(c) # {}
    /\ last.op = "get_buffer" /\ last.id = 1

\* C19: with no crash, every holder reclaiming and workers that keep asking,
\* a get_buffer call without timeout that waits does return a slot, and
\* every slot id of the pool is returned by get_buffer again and again.
C19_SlotsCycle ==
    /\ \A c \in Consumers :
          (pc[c] = "blocked") ~> (pc[c] = "idle" /\ held[c] # {})
    /\ \A i \in 0..(MaxCount - 1) :
          []<>(i \in Ids => (Returned /\ last.id = i))

C19_Witness ==
    /\ N = 1 /\ Returned /\ last.id = 0 /\ ~drained.on
    /\ \E c \in Consumers : pc[c] = "blocked"

====
